---- MODULE Spec2Model ----
(***************************************************************************)
(* Model of examples/simple-ai-agent.py: the AIAgentPaymentService facade  *)
(* (generate_auth_token, get_quote, send_payment, check_payment_status,    *)
(* evaluate_payment) and the driver demonstrate_ai_agent_integration.      *)
(*                                                                         *)
(* The remote service is the environment: every HTTP call receives a       *)
(* nondeterministically chosen reply (unreachable, any HTTP code, a body   *)
(* that is not JSON, a JSON array, or a JSON object of any shape below).   *)
(* JSON objects and Python dicts are TLA+ records; Python None is None.    *)
(* Decimal strings are kept as strings; float() is the operator Float.     *)
(***************************************************************************)
EXTENDS Integers, Sequences, FiniteSets, TLC

\* ------------------------------------------------------------------ bounds
MaxCalls == 2      \* facade calls made by the free caller
MaxDrift == 1      \* seconds that may elapse between two clock reads of one call

\* ------------------------------------------------------- program constants
ValidityWindow == 3600
SleepSeconds == 2
NotFoundCode == 404

AgentId == "python-ai-agent-001"
JwtSecret == "c5fedbfa23a88adfd97ade7b37c57fe323ecbd06b750da25e493ebeb05299d18"

\* --------------------------------------------------------- Python values
None == [py |-> "None"]
EmptyDict == [py |-> "{}"]

Has(d, k) == k \in DOMAIN d

\* dict.get(k, default)
Get(d, k, default) == IF Has(d, k) THEN d[k] ELSE default

Returned(v) == [kind |-> "returned", value |-> v]
Raised(e, m) == [kind |-> "raised", exc |-> e, message |-> m]

\* what one call produced: its outcome and the lines it printed
Done(o, p) == [outcome |-> o, printed |-> p]

\* float(s) on the decimal strings of the model, in hundredths; float() of
\* any other string raises ValueError
Numeric == {"15.00", "16.60", "14.50", "14.25", "14.24", "15.77",
            "0.30", "1.00", "1.01", "50", "25"}

Float(s) ==
  CASE s = "15.00" -> 1500 [] s = "16.60" -> 1660 [] s = "14.50" -> 1450
    [] s = "14.25" -> 1425 [] s = "14.24" -> 1424
    [] s = "15.77" -> 1577 [] s = "0.30" -> 30 [] s = "1.00" -> 100
    [] s = "1.01" -> 101 [] s = "50" -> 5000 [] s = "25" -> 2500

\* x * 0.95 in IEEE double arithmetic, in units of 1e-5.  0.95 is not a
\* double, so the product is rounded: for 16.60 it is 15.770000000000001,
\* one ulp above float("15.77"); for the other amounts of the model the
\* rounded product compares with every two-decimal double as the exact one.
Times095(x) == x * 950 + (IF x = 1660 THEN 1 ELSE 0)

\* --------------------------------------------------- replies of the service
\* one HTTP exchange: reached = FALSE is a transport failure (connection
\* refused, timeout); otherwise the HTTP code and the body
NotJSON == [kind |-> "notjson", obj |-> None]
JSONArray == [kind |-> "array", obj |-> None]
Object(o) == [kind |-> "object", obj |-> o]

Unreachable == [reached |-> FALSE, code |-> 0, body |-> NotJSON]
Reply(c, b) == [reached |-> TRUE, code |-> c, body |-> b]

\* ---- GET /api/v1/quote
QuoteFields == {"source_currency", "destination_currency", "exchange_rate",
                "estimated_destination_amount", "estimated_fee"}

Quote(dst, fee) ==
  [source_currency |-> "XLM", destination_currency |-> "USDC",
   exchange_rate |-> "0.9667", estimated_destination_amount |-> dst,
   estimated_fee |-> fee]

QuoteDests == {"14.50", "14.25", "14.24", "15.77", "n/a"}
QuoteFees == {"1.00", "1.01"}

QuoteObjects ==
  {Quote(d, f) : d \in QuoteDests, f \in QuoteFees}
  \cup {[source_currency |-> "XLM", destination_currency |-> "USDC",
         exchange_rate |-> "0.9667", estimated_destination_amount |-> "14.50",
         estimated_fee |-> "0.30", quote_id |-> "q-1"],
        [source_currency |-> "XLM", destination_currency |-> "USDC",
         estimated_destination_amount |-> "14.50", estimated_fee |-> "0.30"],
        [source_currency |-> "XLM", destination_currency |-> "USDC"]}

QuoteErrorMessage == "Unsupported currency pair"

QuoteEnvelopes ==
  {[status |-> "success", data |-> q] : q \in QuoteObjects}
  \cup {[status |-> "success"],
        [status |-> "error", error |-> [message |-> QuoteErrorMessage]],
        [status |-> "error", error |-> [code |-> "E_QUOTE"]],
        [status |-> "error", error |-> None],
        [status |-> "error"],
        [error |-> [message |-> QuoteErrorMessage]]}

QuoteCodes == {200, 400}

QuoteReplies ==
  {Unreachable}
  \cup {Reply(c, b) : c \in QuoteCodes,
                      b \in {NotJSON, JSONArray} \cup {Object(o) : o \in QuoteEnvelopes}}

\* ---- POST /api/v1/ap2/payment
Confirmation(st) ==
  [status |-> st,
   transaction_details |-> [transaction_hash |-> "abc123", settlement_time_seconds |-> 5],
   amount |-> [sent |-> "15.00", currency_sent |-> "XLM",
               received |-> "14.50", currency_received |-> "USDC"],
   fees |-> [network_fee |-> "0.30"]]

PaymentErrorMessage == "insufficient funds"

PaymentEnvelopes ==
  {Confirmation("completed"), Confirmation("pending"),
   [status |-> "completed"],
   [status |-> "completed",
    transaction_details |-> [transaction_hash |-> "abc123"],
    amount |-> [sent |-> "15.00", currency_sent |-> "XLM",
                received |-> "14.50", currency_received |-> "USDC"],
    fees |-> [network_fee |-> "0.30"]],
   [status |-> "rejected", error |-> [message |-> PaymentErrorMessage]],
   [status |-> "rejected", error |-> [code |-> "E_FUNDS"]],
   [status |-> "rejected", error |-> None],
   [status |-> "rejected"],
   [error |-> [message |-> PaymentErrorMessage]]}

PaymentCodes == {200, 400}

PaymentReplies ==
  {Unreachable}
  \cup {Reply(c, b) : c \in PaymentCodes,
                      b \in {NotJSON, JSONArray} \cup {Object(o) : o \in PaymentEnvelopes}}

\* ---- GET /api/v1/ap2/payment/{intent_id}
StatusEnvelopes ==
  {[status |-> "completed", transaction_details |-> [transaction_hash |-> "abc123"]],
   [status |-> "completed", transaction_details |-> [settlement_time_seconds |-> 5]],
   [status |-> "pending", transaction_details |-> None],
   [status |-> "pending"],
   [transaction_details |-> [transaction_hash |-> "abc123"]],
   [error |-> [message |-> "Payment not found"]]}

StatusCodes == {200, NotFoundCode}

StatusReplies ==
  {Unreachable}
  \cup {Reply(c, b) : c \in StatusCodes,
                      b \in {NotJSON, JSONArray} \cup {Object(o) : o \in StatusEnvelopes}}

\* ---- the caller's inputs
DemoRequest ==
  [amount |-> "15.00", currency |-> "XLM", destination_currency |-> "USDC",
   recipient_agent_id |-> "python-merchant-agent",
   recipient_address |-> "stellar:GDPSW6ONJR7QJEQXB2V4TBRTSJ4ALSSMCMI6GVAN2XMNVKDGV7HE4K63",
   metadata |-> [purpose |-> "AI model training credits", service |-> "Claude API Usage"]]

PaymentDetails ==
  {DemoRequest,
   [amount |-> "16.60", currency |-> "XLM",
    recipient_agent_id |-> "python-merchant-agent",
    recipient_address |-> "stellar:GDPSW6ONJR7QJEQXB2V4TBRTSJ4ALSSMCMI6GVAN2XMNVKDGV7HE4K63",
    callback_url |-> "https://agent.example/callback"]}

currency_pairs ==
  << [from |-> "XLM", to |-> "USDC", amount |-> "50"],
     [from |-> "USDC", to |-> "XLM", amount |-> "25"] >>

QuoteArgs ==
  {[source_currency |-> currency_pairs[i].from,
    destination_currency |-> currency_pairs[i].to,
    amount |-> currency_pairs[i].amount] : i \in 1..Len(currency_pairs)}

\* ------------------------------------------------------------ the facade
\* data.get("status") == s
StatusIs(data, s) == Has(data, "status") /\ data.status = s

\* data.get("error", {}) is a dict, so that .get("message") can be called
ErrorIsDict(data) == ~Has(data, "error") \/ data.error # None

\* data.get("error", {}).get("message", default), when ErrorIsDict(data)
ErrorMessage(data, default) ==
  IF Has(data, "error") THEN Get(data.error, "message", default) ELSE default

\* response.raise_for_status()
RaisesForStatus(code) == code >= 400 /\ code < 600

HTTPErrorMessage(code) ==
  CASE code = 400 -> "400 Client Error: Bad Request"
    [] code = NotFoundCode -> "404 Client Error: Not Found"

\* uuid.uuid4(): the value of the n-th draw of the process is named n; two
\* draws give two values (a collision of random UUIDs is left out)
uuid4(n) == n

NewIntentId_Cached(draws) == uuid4(1)

\* str(uuid.uuid4()) in send_payment, after `draws` earlier draws
NewIntentId(draws) == uuid4(draws + 1)

\* jwt.encode(payload, secret, algorithm="HS256")
jwt_encode(payload, secret) ==
  [alg |-> "HS256", payload |-> payload, signed_with |-> secret]

\* generate_auth_token, the clock showing t1 at the first read and t2 at the
\* second
generate_auth_token(t1, t2) ==
  jwt_encode([agent_id |-> AgentId,
              permissions |-> <<"payment:send", "payment:receive">>,
              iat |-> t1,
              exp |-> t2 + ValidityWindow],
             JwtSecret)

QuoteOf_KnownFields(data) == [k \in QuoteFields \cap DOMAIN data.data |-> data.data[k]]

\* quote = data["data"]
QuoteOf(data) == data.data

get_quote(source_currency, destination_currency, amount, reply) ==
  LET start == <<"Getting quote">>
      fail(e, m) == Done(Raised(e, m), start \o <<"Quote error">>)
  IN  IF ~reply.reached THEN fail("ConnectionError", "connection failed")
      ELSE IF RaisesForStatus(reply.code)
        THEN fail("HTTPError", HTTPErrorMessage(reply.code))
      ELSE IF reply.body.kind = "notjson"
        THEN fail("JSONDecodeError", "Expecting value")
      ELSE IF reply.body.kind # "object"
        THEN fail("AttributeError", "no attribute 'get'")
      ELSE LET data == reply.body.obj IN
        IF StatusIs(data, "success")
          THEN IF ~Has(data, "data") THEN fail("KeyError", "'data'")
               ELSE LET quote == QuoteOf(data) IN
                 IF ~(QuoteFields \subseteq DOMAIN quote)
                   THEN Done(Raised("KeyError", "quote field"),
                             start \o <<"Quote received", "Quote error">>)
                   ELSE Done(Returned(quote), start \o <<"Quote received">>)
          ELSE IF ~ErrorIsDict(data)
            THEN fail("AttributeError", "no attribute 'get'")
            ELSE fail("Exception", ErrorMessage(data, "Failed to get quote"))

\* the PaymentIntent of send_payment
payment_intent(payment_details, intent_id, token) ==
  LET base ==
        [intent_id |-> intent_id,
         amount |-> payment_details.amount,
         currency |-> payment_details.currency,
         recipient |->
           [agent_id |-> payment_details.recipient_agent_id,
            payment_address |-> payment_details.recipient_address,
            destination_currency |->
              Get(payment_details, "destination_currency", payment_details.currency)],
         sender |-> [agent_id |-> AgentId, authorization_token |-> token],
         metadata |-> Get(payment_details, "metadata", EmptyDict)]
  IN  IF Has(payment_details, "callback_url")
        THEN [k \in DOMAIN base \cup {"callback_url"} |->
                IF k = "callback_url" THEN payment_details.callback_url ELSE base[k]]
        ELSE base

PaymentCompleted_NotRejected(data) == ~StatusIs(data, "rejected")

\* data.get("status") == "completed"
PaymentCompleted(data) == StatusIs(data, "completed")

\* the fields of a confirmation that send_payment prints
ConfirmationPrintable(data) ==
  /\ {"transaction_details", "amount", "fees"} \subseteq DOMAIN data
  /\ {"transaction_hash", "settlement_time_seconds"} \subseteq DOMAIN data.transaction_details
  /\ {"sent", "currency_sent", "received", "currency_received"} \subseteq DOMAIN data.amount
  /\ Has(data.fees, "network_fee")

\* send_payment from the POST on, the intent built
submit_payment(intent, reply) ==
  LET start == <<"Sending payment">>
      fail(e, m) == Done(Raised(e, m), start \o <<"Payment error">>)
  IN  IF ~reply.reached THEN fail("ConnectionError", "connection failed")
      ELSE IF reply.body.kind = "notjson"
        THEN fail("JSONDecodeError", "Expecting value")
      ELSE IF reply.body.kind # "object"
        THEN fail("AttributeError", "no attribute 'get'")
      ELSE LET data == reply.body.obj IN
        IF PaymentCompleted(data)
          THEN IF ~ConfirmationPrintable(data)
                 THEN Done(Raised("KeyError", "confirmation field"),
                           start \o <<"Payment successful!", "Payment error">>)
                 ELSE Done(Returned([success |-> TRUE,
                                     intent_id |-> intent.intent_id,
                                     confirmation |-> data]),
                           start \o <<"Payment successful!">>)
          ELSE IF ~ErrorIsDict(data)
            THEN fail("AttributeError", "no attribute 'get'")
            ELSE Done(Returned([success |-> FALSE,
                                intent_id |-> intent.intent_id,
                                error |-> Get(data, "error", None)]),
                      start \o <<"Payment failed">>)

StatusNotFound_AfterParse(reply) ==
  reply.code = NotFoundCode /\ reply.body.kind = "object"

\* response.status_code == 404
StatusNotFound(reply) == reply.code = NotFoundCode

\* data.get("transaction_details") is truthy
HasTransactionDetails(data) ==
  Has(data, "transaction_details") /\ data.transaction_details # None

check_payment_status(intent_id, reply) ==
  LET start == <<"Checking payment status">>
      fail(e, m) == Done(Raised(e, m), start \o <<"Status check error">>)
  IN  IF ~reply.reached THEN fail("ConnectionError", "connection failed")
      ELSE IF StatusNotFound(reply)
        THEN Done(Returned(None), start \o <<"Payment not found">>)
      ELSE IF reply.body.kind = "notjson"
        THEN fail("JSONDecodeError", "Expecting value")
      ELSE IF reply.body.kind # "object"
        THEN fail("TypeError", "indices must be integers")
      ELSE LET data == reply.body.obj IN
        IF ~Has(data, "status") THEN fail("KeyError", "'status'")
        ELSE IF HasTransactionDetails(data)
                /\ ~Has(data.transaction_details, "transaction_hash")
          THEN Done(Raised("KeyError", "'transaction_hash'"),
                    start \o <<"Status", "Status check error">>)
          ELSE Done(Returned(data),
                    start \o <<"Status">>
                          \o (IF HasTransactionDetails(data) THEN <<"TX Hash">> ELSE <<>>))

HighFeeWarning == "Warning: High network fee"
UnfavorableWarning == "Warning: Exchange rate may not be favorable (>5% loss)"

HighFee_Inclusive(fee) == fee >= 100

\* fee > 1.0
HighFee(fee) == fee > 100

\* expected_receive < float(payment_request["amount"]) * 0.95
Unfavorable(expected_receive, amount) == expected_receive * 1000 < Times095(amount)

\* the warning lines evaluate_payment prints, in order
Warnings(fee, expected_receive, amount) ==
  (IF HighFee(fee) THEN <<HighFeeWarning>> ELSE <<>>)
  \o (IF Unfavorable(expected_receive, amount) THEN <<UnfavorableWarning>> ELSE <<>>)

Approval_Strict(warnings) == warnings = <<>>

\* "approved": True, whatever was warned about
Approval(warnings) == TRUE

evaluate_payment(payment_request, reply) ==
  LET start == <<"AI Agent evaluating payment request">>
      q == get_quote(payment_request.currency,
                     Get(payment_request, "destination_currency", payment_request.currency),
                     payment_request.amount, reply)
  IN  IF q.outcome.kind = "raised" THEN Done(q.outcome, start \o q.printed)
      ELSE LET quote == q.outcome.value IN
        IF quote.estimated_destination_amount \notin Numeric
             \/ quote.estimated_fee \notin Numeric
          THEN Done(Raised("ValueError", "could not convert string to float"),
                    start \o q.printed)
          ELSE LET expected_receive == Float(quote.estimated_destination_amount)
                   fee == Float(quote.estimated_fee)
                   warnings == Warnings(fee, expected_receive, Float(payment_request.amount))
               IN  Done(Returned([approved |-> Approval(warnings),
                                  quote |-> quote,
                                  reasoning |-> "Payment within acceptable parameters"]),
                        start \o q.printed \o <<"AI Analysis">> \o warnings
                              \o <<"Payment approved by AI agent">>)

\* --------------------------------------------------------------- the state
VARIABLES
  now,          \* int(time.time())
  uuidDraws,    \* calls of uuid.uuid4() so far in the process
  posted,       \* the PaymentIntents given to requests.post, in order
  statusGets,   \* the intent_ids of the status GETs issued, in order
  calls,        \* number of facade calls made so far
  call,         \* the last facade call: op, args, reply of the service, outcome
  printed,      \* the lines the last facade call printed
  pc,           \* position of demonstrate_ai_agent_integration
  evaluation,   \* the driver's local `evaluation`
  result,       \* the driver's local `result`
  pair          \* index of the driver's loop over currency_pairs

vars == <<now, uuidDraws, posted, statusGets, calls, call, printed, pc, evaluation, result, pair>>

driverVars == <<pc, evaluation, result, pair>>

Call(op, args, reply, outcome) ==
  [op |-> op, args |-> args, reply |-> reply, outcome |-> outcome]

Init ==
  /\ now = 0
  /\ uuidDraws = 0
  /\ posted = <<>>
  /\ statusGets = <<>>
  /\ calls = 0
  /\ call = Call("none", None, Unreachable, Returned(None))
  /\ printed = <<>>
  /\ pc = "s1_evaluate"
  /\ evaluation = None
  /\ result = None
  /\ pair = 1

\* ------------------------------------------- the facade under a free caller
\* A caller makes up to MaxCalls calls, in any order and with any inputs.
\* The clock is read by generate_auth_token only, so it advances here only
\* between the two reads of one token.
GenerateAuthToken ==
  \E d \in 0..MaxDrift :
    /\ calls < MaxCalls
    /\ calls' = calls + 1
    /\ now' = now + d
    /\ call' = Call("generate_auth_token", None, Unreachable,
                    Returned(generate_auth_token(now, now + d)))
    /\ printed' = <<>>
    /\ UNCHANGED <<uuidDraws, posted, statusGets, driverVars>>

GetQuote ==
  \E a \in QuoteArgs, reply \in QuoteReplies :
    LET r == get_quote(a.source_currency, a.destination_currency, a.amount, reply) IN
    /\ calls < MaxCalls
    /\ calls' = calls + 1
    /\ call' = Call("get_quote", a, reply, r.outcome)
    /\ printed' = r.printed
    /\ UNCHANGED <<now, uuidDraws, posted, statusGets, driverVars>>

EvaluatePayment ==
  \E payment_request \in PaymentDetails, reply \in QuoteReplies :
    LET r == evaluate_payment(payment_request, reply) IN
    /\ calls < MaxCalls
    /\ calls' = calls + 1
    /\ call' = Call("evaluate_payment", payment_request, reply, r.outcome)
    /\ printed' = r.printed
    /\ UNCHANGED <<now, uuidDraws, posted, statusGets, driverVars>>

\* send_payment: draws the intent_id, mints the token (two clock reads, d
\* seconds apart), POSTs the intent and classifies the reply
SendPaymentStep(payment_details, d, reply) ==
  LET intent == payment_intent(payment_details, NewIntentId(uuidDraws),
                               generate_auth_token(now, now + d))
      r == submit_payment(intent, reply)
  IN  /\ calls' = calls + 1
      /\ uuidDraws' = uuidDraws + 1
      /\ now' = now + d
      /\ posted' = Append(posted, intent)
      /\ call' = Call("send_payment", payment_details, reply, r.outcome)
      /\ printed' = r.printed
      /\ UNCHANGED statusGets

SendPayment ==
  /\ calls < MaxCalls
  /\ \E payment_details \in PaymentDetails, d \in 0..MaxDrift, reply \in PaymentReplies :
       SendPaymentStep(payment_details, d, reply)
  /\ UNCHANGED driverVars

CheckPaymentStatusStep(intent_id, reply) ==
  LET r == check_payment_status(intent_id, reply) IN
  /\ calls' = calls + 1
  /\ statusGets' = Append(statusGets, intent_id)
  /\ call' = Call("check_payment_status", intent_id, reply, r.outcome)
  /\ printed' = r.printed
  /\ UNCHANGED <<uuidDraws, posted>>

\* any intent_id may be asked for: one that was generated, or 0, which never is
CheckPaymentStatus ==
  /\ calls < MaxCalls
  /\ \E intent_id \in 0..uuidDraws, reply \in StatusReplies :
       CheckPaymentStatusStep(intent_id, reply)
  /\ UNCHANGED <<now, driverVars>>

Next ==
  \/ GenerateAuthToken
  \/ GetQuote
  \/ EvaluatePayment
  \/ SendPayment
  \/ CheckPaymentStatus

Spec == Init /\ [][Next]_vars

\* ------------------------------------- demonstrate_ai_agent_integration
DriverShouldTrack_Always(res) == TRUE

\* if result["success"]:
DriverShouldTrack(res) == res.success

\* the replies given to the batch quotes of scenario 2
Scenario2Replies ==
  {Unreachable,
   Reply(200, NotJSON),
   Reply(200, Object([status |-> "success", data |-> Quote("14.50", "0.30")])),
   Reply(400, Object([status |-> "error", error |-> [message |-> QuoteErrorMessage]]))}

\* evaluation = agent.evaluate_payment(payment_request)
DriverEvaluate ==
  /\ pc = "s1_evaluate"
  /\ \E reply \in QuoteReplies :
       LET r == evaluate_payment(DemoRequest, reply) IN
       /\ calls' = calls + 1
       /\ call' = Call("evaluate_payment", DemoRequest, reply, r.outcome)
       /\ printed' = r.printed
       /\ IF r.outcome.kind = "raised"
            THEN pc' = "crashed" /\ UNCHANGED evaluation
            ELSE /\ evaluation' = r.outcome.value
                 /\ pc' = IF r.outcome.value.approved THEN "s1_send" ELSE "s2_quotes"
  /\ UNCHANGED <<now, uuidDraws, posted, statusGets, result, pair>>

\* result = agent.send_payment(payment_request)
DriverSend ==
  /\ pc = "s1_send"
  /\ \E d \in 0..MaxDrift, reply \in PaymentReplies :
       /\ SendPaymentStep(DemoRequest, d, reply)
       /\ LET o == call'.outcome IN
          IF o.kind = "raised"
            THEN pc' = "crashed" /\ UNCHANGED result
            ELSE /\ result' = o.value
                 /\ pc' = IF DriverShouldTrack(o.value) THEN "s1_track" ELSE "s2_quotes"
  /\ UNCHANGED <<evaluation, pair>>

\* time.sleep(2); agent.check_payment_status(result["intent_id"])
DriverTrack ==
  /\ pc = "s1_track"
  /\ now' = now + SleepSeconds
  /\ \E reply \in StatusReplies :
       /\ CheckPaymentStatusStep(result.intent_id, reply)
       /\ pc' = IF call'.outcome.kind = "raised" THEN "crashed" ELSE "s2_quotes"
  /\ UNCHANGED <<evaluation, result, pair>>

\* agent.get_quote(pair["from"], pair["to"], pair["amount"]) for each pair
DriverQuote ==
  /\ pc = "s2_quotes"
  /\ pair <= Len(currency_pairs)
  /\ \E reply \in Scenario2Replies :
       LET p == currency_pairs[pair]
           r == get_quote(p.from, p.to, p.amount, reply)
       IN  /\ calls' = calls + 1
           /\ call' = Call("get_quote",
                           [source_currency |-> p.from, destination_currency |-> p.to,
                            amount |-> p.amount],
                           reply, r.outcome)
           /\ printed' = r.printed
           /\ IF r.outcome.kind = "raised"
                THEN pc' = "crashed" /\ UNCHANGED pair
                ELSE /\ pair' = pair + 1
                     /\ pc' = IF pair = Len(currency_pairs) THEN "done" ELSE "s2_quotes"
  /\ UNCHANGED <<now, uuidDraws, posted, statusGets, evaluation, result>>

DriverNext ==
  \/ DriverEvaluate
  \/ DriverSend
  \/ DriverTrack
  \/ DriverQuote

DriverSpec == Init /\ [][DriverNext]_vars

C2_IntentIdsFresh ==
  \A i, j \in 1..Len(posted) : i # j => posted[i].intent_id # posted[j].intent_id

\* the same payment_details sent twice
C2_Witness ==
  /\ Len(posted) >= 2
  /\ posted[1].amount = posted[2].amount
  /\ posted[1].recipient = posted[2].recipient
  /\ call.op = "send_payment"

\* C3: a decision that evaluate_payment returns has approved = TRUE,
\* whatever the fee and the destination amount of the quote.
C3_AlwaysApproved ==
  (call.op = "evaluate_payment" /\ call.outcome.kind = "returned") =>
    call.outcome.value.approved = TRUE

\* approved although the destination amount is more than 5% short
C3_Witness ==
  /\ call.op = "evaluate_payment"
  /\ call.outcome.kind = "returned"
  /\ call.args.amount = "15.00"
  /\ call.outcome.value.quote.estimated_destination_amount = "14.24"
  /\ call.outcome.value.quote.estimated_fee = "1.00"
  /\ call.outcome.value.approved

C5_NotFoundReturnsNone ==
  (call.op = "check_payment_status" /\ call.reply.reached /\ call.reply.code = 404) =>
    call.outcome = Returned(None)

\* a 404 whose body is not JSON
C5_Witness ==
  /\ call.op = "check_payment_status"
  /\ call.reply.reached
  /\ call.reply.code = 404
  /\ call.reply.body.kind = "notjson"
  /\ call.outcome.kind = "returned"

\* C6: a quote request answered (HTTP 200) with a success envelope whose
\* data holds the quote fields returns exactly the data object.
C6_QuoteIsData ==
  ( /\ call.op = "get_quote"
    /\ call.reply.reached
    /\ call.reply.code = 200
    /\ call.reply.body.kind = "object"
    /\ Has(call.reply.body.obj, "status")
    /\ call.reply.body.obj.status = "success"
    /\ Has(call.reply.body.obj, "data")
    /\ QuoteFields \subseteq DOMAIN call.reply.body.obj.data ) =>
    call.outcome = Returned(call.reply.body.obj.data)

\* a data object with a field beyond the documented ones comes back whole
C6_Witness ==
  /\ call.op = "get_quote"
  /\ call.outcome.kind = "returned"
  /\ Has(call.outcome.value, "quote_id")
  /\ call.outcome.value.quote_id = "q-1"

\* C7 as stated: an error envelope with error.message, under any HTTP
\* code, makes get_quote raise an error carrying the service's message.
C7_QuoteErrorCarriesMessage ==
  ( /\ call.op = "get_quote"
    /\ call.reply.reached
    /\ call.reply.body.kind = "object"
    /\ ~(Has(call.reply.body.obj, "status") /\ call.reply.body.obj.status = "success")
    /\ Has(call.reply.body.obj, "error")
    /\ call.reply.body.obj.error # None
    /\ Has(call.reply.body.obj.error, "message") ) =>
    /\ call.outcome.kind = "raised"
    /\ call.outcome.message = call.reply.body.obj.error.message

\* C8 as stated: every token has exp = iat + 3600 and the two permissions.
C8_TokenExpiry ==
  call.op = "generate_auth_token" =>
    LET payload == call.outcome.value.payload IN
    /\ payload.exp = payload.iat + 3600
    /\ payload.permissions = <<"payment:send", "payment:receive">>

\* C9 as stated: with a JSON object as the body of the answer, whatever
\* fields it has or lacks, send_payment and check_payment_status return a
\* value and do not raise.
C9_JSONBodyNeverRaises ==
  ( /\ call.op \in {"send_payment", "check_payment_status"}
    /\ call.reply.reached
    /\ call.reply.body.kind = "object" ) =>
    call.outcome.kind = "returned"

\* C10: in a run of the driver at most one payment POST is issued, and
\* only with an approved evaluation in hand; at most one status GET is
\* issued, only after send_payment returned success = TRUE, and for the
\* intent_id it returned, which is the one that was submitted.
C10_DriverSequencing ==
  /\ Len(posted) <= 1
  /\ Len(statusGets) <= 1
  /\ Len(posted) = 1 => (Has(evaluation, "approved") /\ evaluation.approved)
  /\ Len(statusGets) = 1 =>
       /\ Len(posted) = 1
       /\ Has(result, "success")
       /\ result.success
       /\ statusGets[1] = result.intent_id
       /\ result.intent_id = posted[1].intent_id

\* a complete run: approved, paid, tracked, both batch quotes received
C10_Witness ==
  /\ pc = "done"
  /\ Len(posted) = 1
  /\ Len(statusGets) = 1
  /\ statusGets[1] = posted[1].intent_id

====
